---- MODULE Spec2Model ----
(***************************************************************************)
(* Model of the dakar-auto listing pipeline: the Field Extractor and the   *)
(* Paginator of scraper.py, the Normalizer and the Deduplicator/Outlier    *)
(* Filter of cleaner.py, and the scrape cycle of app.py.                   *)
(*                                                                         *)
(* Text is a sequence of one-character strings.  A Python None (pandas     *)
(* NaN in a text column) is the value None, a key that a dict does not     *)
(* hold is Absent; in numeric cells None/NaN is NaN and a missing key is   *)
(* NoKey.                                                                  *)
(***************************************************************************)
EXTENDS Integers, Sequences, FiniteSets, TLC

VARIABLES
    \* _extract_numeric_price (scraper.py and cleaner.py)
    price_text, prix_scraper, prix_cleaner, price_pc,
    \* _extract_title_parts (scraper.py) and split_title (cleaner.py)
    title_tokens, title, title_data, split_data, title_pc,
    \* _extract_details (scraper.py)
    li_items, det_category, det_data, det_pc,
    \* clean_dataframe (cleaner.py)
    df_in, source, df_out, clean_err, df_twice, clean_pc,
    \* scrape_category, scrape_all_categories (scraper.py), perform_scraping
    \* and st.session_state (app.py)
    caller, sel, pages, auto_clean, cat_idx, page, all_data, page_log,
    results, returned, run_err, session_scraped, session_cleaned, scrape_pc,
    \* the scrape cycles of one session: the number of the current call of
    \* perform_scraping and of the call that stored cleaned_data (0: none)
    cycle, cleaned_in,
    \* _scrape_single_page (scraper.py) on the listing nodes of one page
    node_listings, node_category, node_rows, node_pc,
    \* _extract_city (cleaner.py)
    addr_chunks, address, ville, city_pc

price_vars == <<price_text, prix_scraper, prix_cleaner, price_pc>>
title_vars == <<title_tokens, title, title_data, split_data, title_pc>>
det_vars == <<li_items, det_category, det_data, det_pc>>
clean_vars == <<df_in, source, df_out, clean_err, df_twice, clean_pc>>
scrape_vars == <<caller, sel, pages, auto_clean, cat_idx, page, all_data,
                 page_log, results, returned, run_err, session_scraped,
                 session_cleaned, scrape_pc, cycle, cleaned_in>>
node_vars == <<node_listings, node_category, node_rows, node_pc>>
city_vars == <<addr_chunks, address, ville, city_pc>>
vars == <<price_vars, title_vars, det_vars, clean_vars, scrape_vars, node_vars,
          city_vars>>

----------------------------------------------------------------------------
(* Values *)

None == <<"<None>">>
Absent == <<"<absent>">>
NaN == -1
NoKey == -2

----------------------------------------------------------------------------
(* Text primitives: str.split, str.join, str.lower, "in", re.sub, int *)

DigitChars == {"0", "1", "2", "3", "4", "5", "6", "7", "8", "9"}

DigitVal(c) ==
    CASE c = "0" -> 0 [] c = "1" -> 1 [] c = "2" -> 2 [] c = "3" -> 3
      [] c = "4" -> 4 [] c = "5" -> 5 [] c = "6" -> 6 [] c = "7" -> 7
      [] c = "8" -> 8 [] c = "9" -> 9

IsDigit(c) == c \in DigitChars

IsSpace(c) == c = " "

\* \w of re: letters, digits and the underscore; of the characters the
\* model draws, the space, the comma, the dot and the hyphen are not.
IsWordChar(c) == c \notin {" ", ",", ".", "-"}

LowerChar(c) ==
    CASE c = "A" -> "a" [] c = "B" -> "b" [] c = "C" -> "c" [] c = "D" -> "d"
      [] c = "E" -> "e" [] c = "F" -> "f" [] c = "G" -> "g" [] c = "H" -> "h"
      [] c = "I" -> "i" [] c = "J" -> "j" [] c = "K" -> "k" [] c = "L" -> "l"
      [] c = "M" -> "m" [] c = "N" -> "n" [] c = "O" -> "o" [] c = "P" -> "p"
      [] c = "Q" -> "q" [] c = "R" -> "r" [] c = "S" -> "s" [] c = "T" -> "t"
      [] c = "U" -> "u" [] c = "V" -> "v" [] c = "W" -> "w" [] c = "X" -> "x"
      [] c = "Y" -> "y" [] c = "Z" -> "z" [] c = "É" -> "é" [] c = "È" -> "è"
      [] OTHER -> c

Lower(s) == [i \in 1..Len(s) |-> LowerChar(s[i])]

\* pattern in text
Contains(text, pat) ==
    \E i \in 0..(Len(text) - Len(pat)) :
        \A j \in 1..Len(pat) : text[i + j] = pat[j]

\* re.sub(r'[^\d]', '', text)
DigitsOnly(text) == SelectSeq(text, IsDigit)

\* int(digits) of a non-empty digit string
RECURSIVE ParseInt(_)
ParseInt(digits) ==
    IF Len(digits) = 0 THEN 0
    ELSE 10 * ParseInt(SubSeq(digits, 1, Len(digits) - 1))
         + DigitVal(digits[Len(digits)])

\* text.split(): the maximal runs of non-space characters
RECURSIVE SplitFrom(_, _, _)
SplitFrom(text, i, cur) ==
    IF i > Len(text) THEN (IF cur = <<>> THEN <<>> ELSE <<cur>>)
    ELSE IF IsSpace(text[i])
         THEN (IF cur = <<>> THEN <<>> ELSE <<cur>>) \o SplitFrom(text, i + 1, <<>>)
         ELSE SplitFrom(text, i + 1, Append(cur, text[i]))

Split(text) == SplitFrom(text, 1, <<>>)

\* ' '.join(parts)
RECURSIVE Join(_)
Join(parts) ==
    IF Len(parts) = 0 THEN <<>>
    ELSE IF Len(parts) = 1 THEN parts[1]
    ELSE parts[1] \o <<" ">> \o Join(Tail(parts))

\* list.remove(x): drops the first element equal to x (x is in the list)
RECURSIVE RemoveFirst(_, _)
RemoveFirst(parts, x) ==
    IF Len(parts) = 0 THEN <<>>
    ELSE IF parts[1] = x THEN Tail(parts)
    ELSE <<parts[1]>> \o RemoveFirst(Tail(parts), x)

InList(parts, x) == \E i \in 1..Len(parts) : parts[i] = x

\* the sequences over S of length at most n
SeqsUpTo(S, n) == UNION {[1..k -> S] : k \in 0..n}

----------------------------------------------------------------------------
(* _extract_numeric_price *)

MaxPriceLen == 3

PriceChars == {"5", "0", " ", "F"}

PriceTexts == SeqsUpTo(PriceChars, MaxPriceLen)

ScraperPriceNoNone(price_text_) ==
    LET cleaned == DigitsOnly(price_text_)
    IN ParseInt(cleaned)

\* DakarAutoScraper._extract_numeric_price; the text is a str, so the
\* except branch is not taken.
ScraperExtractNumericPrice(price_text_) ==
    LET cleaned == DigitsOnly(price_text_)
    IN IF cleaned # <<>> THEN ParseInt(cleaned) ELSE NaN

\* DataCleaner._extract_numeric_price: a cell that is not a str (None here)
\* gives None.
CleanerExtractNumericPrice(price_text_) ==
    IF price_text_ = None THEN NaN
    ELSE LET cleaned == DigitsOnly(price_text_)
         IN IF cleaned # <<>> THEN ParseInt(cleaned) ELSE NaN

PriceIdle ==
    /\ price_text = <<>>
    /\ prix_scraper = NoKey
    /\ prix_cleaner = NoKey
    /\ price_pc = "idle"

PriceInit ==
    /\ price_text \in PriceTexts
    /\ prix_scraper = NoKey
    /\ prix_cleaner = NoKey
    /\ price_pc = "start"

ScraperPrice ==
    /\ price_pc = "start"
    /\ prix_scraper' = ScraperExtractNumericPrice(price_text)
    /\ price_pc' = "scraper_done"
    /\ UNCHANGED <<price_text, prix_cleaner, title_vars, det_vars, clean_vars, scrape_vars,
                   node_vars, city_vars>>

CleanerPrice ==
    /\ price_pc = "scraper_done"
    /\ prix_cleaner' = CleanerExtractNumericPrice(price_text)
    /\ price_pc' = "done"
    /\ UNCHANGED <<price_text, prix_scraper, title_vars, det_vars, clean_vars, scrape_vars,
                   node_vars, city_vars>>

PriceNext == ScraperPrice \/ CleanerPrice

----------------------------------------------------------------------------
(* Title splitting: _extract_title_parts and split_title *)

MaxTitleTokens == 4

Kia == <<"K", "i", "a">>
Rio == <<"R", "i", "o">>
Y2008 == <<"2", "0", "0", "8">>
Y2019 == <<"2", "0", "1", "9">>
X2008 == <<"X", "-", "2", "0", "0", "8">>

TitleTokens == {Kia, Rio, Y2008, Y2019, X2008}

\* (19|20)\d{2} at position i of text, between two \b
YearAt(text, i) ==
    /\ i + 3 <= Len(text)
    /\ \/ text[i] = "1" /\ text[i + 1] = "9"
       \/ text[i] = "2" /\ text[i + 1] = "0"
    /\ IsDigit(text[i + 2])
    /\ IsDigit(text[i + 3])
    /\ i = 1 \/ ~IsWordChar(text[i - 1])
    /\ i + 3 = Len(text) \/ ~IsWordChar(text[i + 4])

\* re.search(r'\b(19|20)\d{2}\b', text): the leftmost match, or None
YearSearch(text) ==
    LET hits == {i \in 1..Len(text) : YearAt(text, i)}
    IN IF hits = {} THEN None
       ELSE LET first == CHOOSE i \in hits : \A j \in hits : i <= j
            IN SubSeq(text, first, first + 3)

\* DakarAutoScraper._extract_title_parts: the keys it sets in data
ExtractTitleParts(title_) ==
    LET parts == Split(title_)
        year == YearSearch(title_)
        model_parts == IF Len(parts) = 0 THEN <<>> ELSE Tail(parts)
    IN IF Len(parts) = 0
       THEN [marque |-> Absent, annee |-> Absent, modele |-> Absent]
       ELSE IF year # None
            THEN [marque |-> parts[1],
                  annee |-> year,
                  modele |-> Join(IF InList(model_parts, year)
                                  THEN RemoveFirst(model_parts, year)
                                  ELSE model_parts)]
            ELSE [marque |-> parts[1],
                  annee |-> None,
                  modele |-> Join(model_parts)]

\* split_title of DataCleaner._split_combined_title, on one cell
SplitTitle(title_) ==
    IF title_ = None
    THEN [marque |-> None, modele |-> None, annee |-> None]
    ELSE LET year == YearSearch(title_)
             parts0 == Split(title_)
             marque == IF Len(parts0) > 0 THEN parts0[1] ELSE None
             parts1 == IF year # None /\ InList(parts0, year)
                       THEN RemoveFirst(parts0, year) ELSE parts0
             parts2 == IF marque # None /\ marque # <<>> /\ InList(parts1, marque)
                       THEN RemoveFirst(parts1, marque) ELSE parts1
         IN [marque |-> marque,
             modele |-> IF Len(parts2) > 0 THEN Join(parts2) ELSE None,
             annee |-> year]

NoTitleData == [marque |-> Absent, annee |-> Absent, modele |-> Absent]

TitleIdle ==
    /\ title_tokens = <<>>
    /\ title = <<>>
    /\ title_data = NoTitleData
    /\ split_data = NoTitleData
    /\ title_pc = "idle"

TitleInit ==
    /\ title_tokens \in SeqsUpTo(TitleTokens, MaxTitleTokens)
    /\ title = Join(title_tokens)
    /\ title_data = NoTitleData
    /\ split_data = NoTitleData
    /\ title_pc = "start"

DoExtractTitleParts ==
    /\ title_pc = "start"
    /\ title_data' = ExtractTitleParts(title)
    /\ title_pc' = "extracted"
    /\ UNCHANGED <<title_tokens, title, split_data, price_vars, det_vars, clean_vars, scrape_vars,
                   node_vars, city_vars>>

DoSplitTitle ==
    /\ title_pc = "extracted"
    /\ split_data' = SplitTitle(title)
    /\ title_pc' = "done"
    /\ UNCHANGED <<title_tokens, title, title_data, price_vars, det_vars, clean_vars, scrape_vars,
                   node_vars, city_vars>>

TitleNext == DoExtractTitleParts \/ DoSplitTitle

----------------------------------------------------------------------------
(* _extract_details *)

MaxItems == 3

Categories == {"voitures", "motos", "location"}

Li4km == <<"4", " ", "k", "m">>
Li9KM == <<"9", " ", "K", "M">>
LiKm == <<"k", "m">>
Li7 == <<"7">>
LiDiesel == <<"D", "i", "e", "s", "e", "l">>
LiEssence == <<"e", "s", "s", "e", "n", "c", "e">>
LiAuto == <<"A", "u", "t", "o", "m", "a", "t", "i", "q", "u", "e">>
LiManuelle == <<"m", "a", "n", "u", "e", "l", "l", "e">>

LiTexts == {Li4km, Li9KM, LiKm, Li7, LiDiesel, LiEssence, LiAuto, LiManuelle}

Km == <<"k", "m">>
Automatique == <<"a", "u", "t", "o", "m", "a", "t", "i", "q", "u", "e">>
Manuelle == <<"m", "a", "n", "u", "e", "l", "l", "e">>
Diesel == <<"d", "i", "e", "s", "e", "l">>
Essence == <<"e", "s", "s", "e", "n", "c", "e">>

NoDetails == [kilometrage |-> NoKey, boite_vitesse |-> Absent, carburant |-> Absent]

DetailKmFirstWins(data, li, category) ==
    LET text == Lower(li)
        km == DigitsOnly(text)
    IN IF Contains(text, Km) /\ km # <<>> /\ data.kilometrage = NoKey
       THEN ParseInt(km) ELSE data.kilometrage

\* the mileage branch of the loop body of _extract_details
DetailKm(data, li, category) ==
    LET text == Lower(li)
        km == DigitsOnly(text)
    IN IF Contains(text, Km) /\ km # <<>>
       THEN ParseInt(km) ELSE data.kilometrage

\* the gearbox branch
DetailBoite(data, li, category) ==
    LET text == Lower(li)
    IN IF category = "voitures" \/ category = "location"
       THEN IF Contains(text, Automatique) THEN LiAuto
            ELSE IF Contains(text, Manuelle) THEN <<"M">> \o Tail(LiManuelle)
            ELSE data.boite_vitesse
       ELSE data.boite_vitesse

\* the fuel branch
DetailCarburant(data, li, category) ==
    LET text == Lower(li)
    IN IF Contains(text, Diesel) THEN LiDiesel
       ELSE IF Contains(text, Essence) THEN <<"E">> \o Tail(LiEssence)
       ELSE data.carburant

\* the for loop of _extract_details over the list items, in document order
RECURSIVE DetailsLoop(_, _, _)
DetailsLoop(data, items, category) ==
    IF Len(items) = 0 THEN data
    ELSE DetailsLoop([kilometrage |-> DetailKm(data, items[1], category),
                      boite_vitesse |-> DetailBoite(data, items[1], category),
                      carburant |-> DetailCarburant(data, items[1], category)],
                     Tail(items), category)

\* DakarAutoScraper._extract_details: the loop, then the defaults
ExtractDetails(items, category) ==
    LET d == DetailsLoop(NoDetails, items, category)
    IN [kilometrage |-> IF d.kilometrage = NoKey THEN NaN ELSE d.kilometrage,
        boite_vitesse |-> IF d.boite_vitesse = Absent
                             /\ category \in {"voitures", "location"}
                          THEN None ELSE d.boite_vitesse,
        carburant |-> IF d.carburant = Absent /\ category = "voitures"
                      THEN None ELSE d.carburant]

DetIdle ==
    /\ li_items = <<>>
    /\ det_category = "voitures"
    /\ det_data = NoDetails
    /\ det_pc = "idle"

DetInit ==
    /\ li_items \in SeqsUpTo(LiTexts, MaxItems)
    /\ det_category \in Categories
    /\ det_data = NoDetails
    /\ det_pc = "start"

DoExtractDetails ==
    /\ det_pc = "start"
    /\ det_data' = ExtractDetails(li_items, det_category)
    /\ det_pc' = "done"
    /\ UNCHANGED <<li_items, det_category, price_vars, title_vars, clean_vars, scrape_vars,
                   node_vars, city_vars>>

DetNext == DoExtractDetails

----------------------------------------------------------------------------
(* Tables: a DataFrame is its set of column names and its rows in order.   *)
(* A row holds one cell per field of the internal vocabulary; the cell of  *)
(* a column the table does not have is None (NaN for prix) and is never    *)
(* read.  An external column is stored under the field it is renamed to.   *)

Sentinel == <<"N", "o", "n", " ", "s", "p", "é", "c", "i", "f", "i", "é">>

\* a prix cell that holds a str that is no number
NonNumeric == -3

\* column_mapping of _clean_webscraper_data
ColumnMapping(col) ==
    CASE col = "Marque" -> "marque"
      [] col = "Prix" -> "prix_texte"
      [] col = "Adresse" -> "adresse"
      [] col = "Kilometrage" -> "kilometrage"
      [] col = "Boite_vitesse" -> "boite_vitesse"
      [] col = "Carburant" -> "carburant"
      [] col = "Annee" -> "annee"
      [] OTHER -> col

EmptyTable == [cols |-> {}, rows |-> <<>>]

\* df.empty
IsEmpty(df) == df.cols = {} \/ Len(df.rows) = 0

\* str.strip()
RECURSIVE LStrip(_)
LStrip(text) ==
    IF Len(text) > 0 /\ IsSpace(text[1]) THEN LStrip(Tail(text)) ELSE text

RECURSIVE RStrip(_)
RStrip(text) ==
    IF Len(text) > 0 /\ IsSpace(text[Len(text)])
    THEN RStrip(SubSeq(text, 1, Len(text) - 1)) ELSE text

Strip(text) == RStrip(LStrip(text))

\* cities of _extract_city, in list order
Cities == <<
    <<"D", "a", "k", "a", "r">>,
    <<"T", "h", "i", "è", "s">>,
    <<"S", "a", "i", "n", "t", "-", "L", "o", "u", "i", "s">>,
    <<"Z", "i", "g", "u", "i", "n", "c", "h", "o", "r">>,
    <<"K", "a", "o", "l", "a", "c", "k">>,
    <<"M", "b", "o", "u", "r">>,
    <<"D", "i", "o", "u", "r", "b", "e", "l">>,
    <<"L", "o", "u", "g", "a">>,
    <<"T", "a", "m", "b", "a", "c", "o", "u", "n", "d", "a">>,
    <<"K", "o", "l", "d", "a">>,
    <<"M", "a", "t", "a", "m">>,
    <<"K", "a", "f", "f", "r", "i", "n", "e">>,
    <<"S", "é", "d", "h", "i", "o", "u">>,
    <<"R", "u", "f", "i", "s", "q", "u", "e">>,
    <<"G", "u", "é", "d", "i", "a", "w", "a", "y", "e">> >>

\* address.split(',')[-1]: the text after the last comma
AfterLastComma(text) ==
    LET commas == {i \in 1..Len(text) : text[i] = ","}
        last == CHOOSE i \in commas : \A j \in commas : j <= i
    IN SubSeq(text, last + 1, Len(text))

ExtractCityCommaFirst(address_) ==
    IF address_ = None THEN None
    ELSE IF \E i \in 1..Len(address_) : address_[i] = ","
         THEN Strip(AfterLastComma(address_))
         ELSE LET hits == {k \in 1..Len(Cities) :
                              Contains(Lower(address_), Lower(Cities[k]))}
              IN IF hits # {}
                 THEN Cities[CHOOSE k \in hits : \A j \in hits : k <= j]
                 ELSE None

\* DataCleaner._extract_city
ExtractCity(address_) ==
    IF address_ = None THEN None
    ELSE LET hits == {k \in 1..Len(Cities) :
                         Contains(Lower(address_), Lower(Cities[k]))}
         IN IF hits # {}
            THEN Cities[CHOOSE k \in hits : \A j \in hits : k <= j]
            ELSE IF \E i \in 1..Len(address_) : address_[i] = ","
                 THEN Strip(AfterLastComma(address_))
                 ELSE None

\* pd.to_numeric(errors='coerce') on a cell of a numeric column
ToNumeric(cell) == IF cell = NonNumeric THEN NaN ELSE cell

\* pd.to_numeric(errors='coerce') on a text cell: a digit string is its
\* number, None and any other text of the model are NaN
ToNumericText(cell) ==
    IF cell = None THEN NaN
    ELSE IF Len(cell) > 0 /\ \A i \in 1..Len(cell) : IsDigit(cell[i])
         THEN ParseInt(cell) ELSE NaN

\* DataCleaner._clean_scraper_data.  The canonical spelling of marque is
\* not modelled: no property checked here reads it.
CleanScraperData(df) ==
    LET numeric(r) ==
            [r EXCEPT !.prix = IF "prix" \in df.cols THEN ToNumeric(@) ELSE @,
                      !.kilometrage = IF "kilometrage" \in df.cols
                                      THEN ToNumeric(@) ELSE @,
                      !.annee = IF "annee" \in df.cols THEN ToNumericText(@) ELSE @]
        city(r) ==
            IF "adresse" \in df.cols
            THEN LET a == IF r.adresse = None THEN None ELSE Strip(r.adresse)
                 IN [r EXCEPT !.adresse = a, !.ville = ExtractCity(a)]
            ELSE r
        row(r) == city(numeric(r))
    IN [cols |-> df.cols \cup (IF "adresse" \in df.cols THEN {"ville"} ELSE {}),
        rows |-> [i \in 1..Len(df.rows) |-> row(df.rows[i])]]

\* DataCleaner._split_combined_title
SplitCombinedTitle(df) ==
    LET row(r) ==
            LET s == SplitTitle(r.marque)
            IN [r EXCEPT !.marque = s.marque, !.modele = s.modele, !.annee = s.annee]
    IN IF "marque" \in df.cols
       THEN [cols |-> df.cols \cup {"modele", "annee"},
             rows |-> [i \in 1..Len(df.rows) |-> row(df.rows[i])]]
       ELSE df

\* the renaming loop of _clean_webscraper_data
RenameColumns(df) ==
    [cols |-> {ColumnMapping(c) : c \in df.cols}, rows |-> df.rows]

\* df['titre_complet'] = df['marque']
CopyMarqueToTitle(df) ==
    [cols |-> df.cols \cup {"titre_complet"},
     rows |-> [i \in 1..Len(df.rows) |->
                  [df.rows[i] EXCEPT !.titre_complet = df.rows[i].marque]]]

\* the combined-title branch of _clean_webscraper_data
SplitIfUntitled(df) ==
    IF "titre_complet" \notin df.cols /\ "marque" \in df.cols
    THEN SplitCombinedTitle(CopyMarqueToTitle(df))
    ELSE df

\* df['prix'] = df['prix_texte'].apply(self._extract_numeric_price)
PrixFromTexte(df) ==
    IF "prix_texte" \in df.cols
    THEN [cols |-> df.cols \cup {"prix"},
          rows |-> [i \in 1..Len(df.rows) |->
                       [df.rows[i] EXCEPT
                           !.prix = CleanerExtractNumericPrice(df.rows[i].prix_texte)]]]
    ELSE df

\* DataCleaner._clean_webscraper_data
CleanWebscraperData(df) ==
    CleanScraperData(PrixFromTexte(SplitIfUntitled(RenameColumns(df))))

\* df.drop_duplicates(subset=['titre_complet', 'prix'], keep='first')
RECURSIVE DropDuplicatesFrom(_, _)
DropDuplicatesFrom(rows, seen) ==
    IF Len(rows) = 0 THEN <<>>
    ELSE LET key == <<rows[1].titre_complet, rows[1].prix>>
         IN IF key \in seen
            THEN DropDuplicatesFrom(Tail(rows), seen)
            ELSE <<rows[1]>> \o DropDuplicatesFrom(Tail(rows), seen \cup {key})

KeepDuplicates(rows) == rows

DropDuplicates(rows) == DropDuplicatesFrom(rows, {})

\* the values of a numeric column in ascending order
RECURSIVE Insert(_, _)
Insert(sorted, x) ==
    IF Len(sorted) = 0 THEN <<x>>
    ELSE IF x <= sorted[1] THEN <<x>> \o sorted
    ELSE <<sorted[1]>> \o Insert(Tail(sorted), x)

RECURSIVE Sorted(_)
Sorted(xs) == IF Len(xs) = 0 THEN <<>> ELSE Insert(Sorted(Tail(xs)), xs[1])

\* Series.quantile(k/20), linear interpolation between the order
\* statistics around position (n-1)*k/20, as 20 times its value
\* (an integer, so that no fraction is rounded)
Quantile20(xs, k) ==
    LET sorted == Sorted(xs)
        pos == k * (Len(xs) - 1)
        lo == pos \div 20
        frac == pos % 20
    IN IF frac = 0 THEN 20 * sorted[lo + 1]
       ELSE 20 * sorted[lo + 1] + frac * (sorted[lo + 2] - sorted[lo + 1])

PrixOf(rows) == [i \in 1..Len(rows) |-> rows[i].prix]

BandStrict(rows) ==
    LET q1 == Quantile20(PrixOf(rows), 1)
        q3 == Quantile20(PrixOf(rows), 19)
        inBand(r) == 20 * r.prix > q1 /\ 20 * r.prix < q3
    IN SelectSeq(rows, inBand)

\* df[(df['prix'] >= q1) & (df['prix'] <= q3)]
Band(rows) ==
    LET q1 == Quantile20(PrixOf(rows), 1)
        q3 == Quantile20(PrixOf(rows), 19)
        inBand(r) == 20 * r.prix >= q1 /\ 20 * r.prix <= q3
    IN SelectSeq(rows, inBand)

TextCols == {"adresse", "boite_vitesse", "carburant", "ville", "modele"}

FillNone(cols, r) == r

\* df[col] = df[col].fillna('Non spécifié') for the text columns present
FillNa(cols, r) ==
    LET fill(col, cell) == IF col \in cols /\ cell = None THEN Sentinel ELSE cell
    IN [r EXCEPT !.adresse = fill("adresse", @),
                 !.boite_vitesse = fill("boite_vitesse", @),
                 !.carburant = fill("carburant", @),
                 !.ville = fill("ville", @),
                 !.modele = fill("modele", @)]

CommonCleaningBandFirst(df) ==
    IF ~({"titre_complet", "prix"} \subseteq df.cols)
    THEN [err |-> "KeyError", df |-> EmptyTable]
    ELSE LET hasPrix(r) == r.prix # NaN
             priced == SelectSeq(df.rows, hasPrix)
             banded == IF Len(priced) > 0 THEN Band(priced) ELSE priced
             dedup == DropDuplicates(banded)
         IN [err |-> "none",
             df |-> [cols |-> df.cols,
                     rows |-> [i \in 1..Len(dedup) |-> FillNa(df.cols, dedup[i])]]]

\* DataCleaner._common_cleaning; drop_duplicates raises KeyError when a
\* column of its subset is not in the table
CommonCleaning(df) ==
    IF ~({"titre_complet", "prix"} \subseteq df.cols)
    THEN [err |-> "KeyError", df |-> EmptyTable]
    ELSE LET dedup == DropDuplicates(df.rows)
             hasPrix(r) == r.prix # NaN
             priced == SelectSeq(dedup, hasPrix)
             banded == IF Len(priced) > 0 THEN Band(priced) ELSE priced
         IN [err |-> "none",
             df |-> [cols |-> df.cols,
                     rows |-> [i \in 1..Len(banded) |-> FillNa(df.cols, banded[i])]]]

\* DataCleaner.clean_dataframe
CleanDataframe(df, source_) ==
    IF IsEmpty(df) THEN [err |-> "none", df |-> df]
    ELSE IF source_ = "webscraper"
         THEN CommonCleaning(CleanWebscraperData(df))
         ELSE CommonCleaning(CleanScraperData(df))

----------------------------------------------------------------------------
(* clean_dataframe on a table, then _common_cleaning on its result *)

MaxRows == 4
MaxPrice == 3
MaxWideRows == 1

Sources == {"scraper", "webscraper"}

KiaRio2019 == Kia \o <<" ">> \o Rio \o <<" ">> \o Y2019
F2 == <<"2", " ", "F">>
FOnly == <<"F">>
Pikine == <<"P", "i", "k", "i", "n", "e">>
HlmDakar == <<" ", "H", "L", "M", ",", " ", "D", "A", "K", "A", "R">>

\* a table of the two columns the Deduplicator/Outlier Filter reads
PriceCols == {"titre_complet", "prix"}

PriceRows ==
    [titre_complet: {Kia, Rio}, prix: {NaN} \cup (1..MaxPrice),
     marque: {None}, modele: {None}, annee: {None}, prix_texte: {None},
     adresse: {None}, ville: {None}, kilometrage: {NaN},
     boite_vitesse: {None}, carburant: {None}, categorie: {""},
     url_page: {None}]

\* column sets of the tables the pipeline and the import page hand over:
\* the native table, one whose listings had no price heading, one without
\* address or bullet columns, an external table, one without price
\* column, one without brand column, and a re-imported cleaned table
Shapes == {
    {"titre_complet", "modele", "prix", "adresse", "boite_vitesse",
     "carburant", "categorie"},
    {"titre_complet", "modele", "boite_vitesse", "carburant", "categorie"},
    {"titre_complet", "prix_texte", "prix", "categorie"},
    {"Marque", "Prix", "Adresse", "Annee", "Carburant"},
    {"Marque", "Adresse", "Annee"},
    {"Prix", "Adresse"},
    {"titre_complet", "prix", "ville", "modele"} }

Has(shape, field) == \E c \in shape : ColumnMapping(c) = field

WideRows(shape) ==
    [titre_complet: IF Has(shape, "titre_complet") THEN {Kia} ELSE {None},
     marque: IF Has(shape, "marque") THEN {Kia, KiaRio2019} ELSE {None},
     modele: IF Has(shape, "modele") THEN {None, Rio} ELSE {None},
     annee: IF Has(shape, "annee") THEN {None, Y2008} ELSE {None},
     prix_texte: IF Has(shape, "prix_texte") THEN {F2, FOnly} ELSE {None},
     prix: IF Has(shape, "prix") THEN {NaN, NonNumeric, 2} ELSE {NaN},
     adresse: IF Has(shape, "adresse") THEN {None, Pikine, HlmDakar} ELSE {None},
     ville: IF Has(shape, "ville") THEN {None, Pikine} ELSE {None},
     boite_vitesse: IF Has(shape, "boite_vitesse") THEN {None, LiAuto} ELSE {None},
     carburant: IF Has(shape, "carburant") THEN {None, LiDiesel} ELSE {None},
     categorie: IF Has(shape, "categorie") THEN {"voitures"} ELSE {""},
     kilometrage: {NaN},
     url_page: {None}]

\* the sequences over S of length 1..n
SeqsFrom1(S, n) == SeqsUpTo(S, n) \ {<<>>}

CleanIdle ==
    /\ df_in = EmptyTable
    /\ source = "scraper"
    /\ df_out = EmptyTable
    /\ clean_err = "none"
    /\ df_twice = EmptyTable
    /\ clean_pc = "idle"

CleanInit ==
    /\ \/ /\ \E rows \in SeqsUpTo(PriceRows, MaxRows) :
                df_in = [cols |-> PriceCols, rows |-> rows]
          /\ source = "scraper"
       \/ /\ \E shape \in Shapes :
                \E rows \in SeqsFrom1(WideRows(shape), MaxWideRows) :
                    df_in = [cols |-> shape, rows |-> rows]
          /\ source \in Sources
    /\ df_out = EmptyTable
    /\ clean_err = "none"
    /\ df_twice = EmptyTable
    /\ clean_pc = "input"

\* cleaner.clean_dataframe(df, source)
DoClean ==
    /\ clean_pc = "input"
    /\ LET res == CleanDataframe(df_in, source)
       IN /\ df_out' = res.df
          /\ clean_err' = res.err
    /\ clean_pc' = "cleaned"
    /\ UNCHANGED <<df_in, source, df_twice, price_vars, title_vars, det_vars, scrape_vars,
                   node_vars, city_vars>>

\* _common_cleaning on the table _common_cleaning returned
DoCleanAgain ==
    /\ clean_pc = "cleaned"
    /\ clean_err = "none"
    /\ ~IsEmpty(df_in)
    /\ df_twice' = CommonCleaning(df_out).df
    /\ clean_pc' = "recleaned"
    /\ UNCHANGED <<df_in, source, df_out, clean_err, price_vars, title_vars, det_vars, scrape_vars,
                   node_vars, city_vars>>

CleanNext == DoClean \/ DoCleanAgain

----------------------------------------------------------------------------
(* The Field Extractor on one listing node, the Paginator, the merge and   *)
(* the scrape cycle of the app                                             *)

MaxPages == 2

MaxCycles == 2

\* value of the pages slider of render_scraper_page
DefaultPages == 1

\* a listing node: the text of its first h2, of its first h3 and of the
\* first p after the h3 (Absent when the node has none), and its li texts
NoListingData ==
    [titre_complet |-> Absent, marque |-> Absent, modele |-> Absent,
     annee |-> Absent, prix_texte |-> Absent, prix |-> NoKey,
     adresse |-> Absent, kilometrage |-> NoKey, boite_vitesse |-> Absent,
     carburant |-> Absent, url_page |-> Absent]

\* DakarAutoScraper._extract_listing_data: ok is FALSE when it returns None,
\* for a node without h2 and, by the except branch, for a node on which a
\* later step raises (listing.raises: int() of the digits of a mileage item
\* past the interpreter's digit limit, in _extract_details)
ExtractListingData(listing, category) ==
    IF listing.h2 = Absent THEN [ok |-> FALSE, data |-> NoListingData]
    ELSE IF listing.raises THEN [ok |-> FALSE, data |-> NoListingData]
    ELSE LET ttl == Strip(listing.h2)
             parts == ExtractTitleParts(ttl)
             det == ExtractDetails(listing.li, category)
         IN [ok |-> TRUE,
             data |-> [titre_complet |-> ttl,
                       marque |-> parts.marque,
                       modele |-> parts.modele,
                       annee |-> parts.annee,
                       prix_texte |-> IF listing.h3 = Absent THEN Absent
                                      ELSE Strip(listing.h3),
                       prix |-> IF listing.h3 = Absent THEN NoKey
                                ELSE ScraperExtractNumericPrice(Strip(listing.h3)),
                       adresse |-> IF listing.h3 = Absent \/ listing.p = Absent
                                   THEN Absent ELSE Strip(listing.p),
                       kilometrage |-> det.kilometrage,
                       boite_vitesse |-> det.boite_vitesse,
                       carburant |-> det.carburant,
                       url_page |-> Absent]]

\* the keys of a row dict
DictKeys(d) ==
    {k \in {"titre_complet", "marque", "modele", "annee", "prix_texte",
            "adresse", "boite_vitesse", "carburant", "url_page"} :
        (CASE k = "titre_complet" -> d.titre_complet
           [] k = "marque" -> d.marque
           [] k = "modele" -> d.modele
           [] k = "annee" -> d.annee
           [] k = "prix_texte" -> d.prix_texte
           [] k = "adresse" -> d.adresse
           [] k = "boite_vitesse" -> d.boite_vitesse
           [] k = "carburant" -> d.carburant
           [] k = "url_page" -> d.url_page) # Absent}
    \cup (IF d.prix # NoKey THEN {"prix"} ELSE {})
    \cup (IF d.kilometrage # NoKey THEN {"kilometrage"} ELSE {})

TextCell(v) == IF v = Absent THEN None ELSE v
NumCell(v) == IF v = NoKey THEN NaN ELSE v

\* pd.DataFrame(all_data): the columns are the keys of the dicts, a key a
\* dict does not hold is a missing cell
DataFrame(dicts) ==
    [cols |-> UNION {DictKeys(dicts[i]) : i \in 1..Len(dicts)},
     rows |-> [i \in 1..Len(dicts) |->
                  [titre_complet |-> TextCell(dicts[i].titre_complet),
                   marque |-> TextCell(dicts[i].marque),
                   modele |-> TextCell(dicts[i].modele),
                   annee |-> TextCell(dicts[i].annee),
                   prix_texte |-> TextCell(dicts[i].prix_texte),
                   prix |-> NumCell(dicts[i].prix),
                   adresse |-> TextCell(dicts[i].adresse),
                   ville |-> None,
                   kilometrage |-> NumCell(dicts[i].kilometrage),
                   boite_vitesse |-> TextCell(dicts[i].boite_vitesse),
                   carburant |-> TextCell(dicts[i].carburant),
                   categorie |-> "",
                   url_page |-> TextCell(dicts[i].url_page)]]]

\* df['categorie'] = category
SetCategorie(df, category) ==
    [cols |-> df.cols \cup {"categorie"},
     rows |-> [i \in 1..Len(df.rows) |-> [df.rows[i] EXCEPT !.categorie = category]]]

RECURSIVE PageRowsStopAtFailure(_, _, _)
PageRowsStopAtFailure(listings, url, category) ==
    IF Len(listings) = 0 THEN <<>>
    ELSE LET got == ExtractListingData(listings[1], category)
         IN IF got.ok
            THEN <<[got.data EXCEPT !.url_page = url]>>
                 \o PageRowsStopAtFailure(Tail(listings), url, category)
            ELSE <<>>

\* the loop of _scrape_single_page over the listing nodes
RECURSIVE PageRows(_, _, _)
PageRows(listings, url, category) ==
    IF Len(listings) = 0 THEN <<>>
    ELSE LET got == ExtractListingData(listings[1], category)
         IN (IF got.ok THEN <<[got.data EXCEPT !.url_page = url]>> ELSE <<>>)
            \o PageRows(Tail(listings), url, category)

\* DakarAutoScraper._scrape_single_page: a fetch that raises (connection,
\* timeout, HTTP status) or a parse that raises gives []
ScrapeSinglePage(url, category, response) ==
    IF response.status = "ok" THEN PageRows(response.listings, url, category)
    ELSE <<>>

PageUrlAlwaysQuery(url, page_) == <<url, "?page=", page_>>

\* page_url of scrape_category
PageUrl(url, page_) == IF page_ > 1 THEN <<url, "?page=", page_>> ELSE <<url>>

SleepAfterSuccess(page_, pages_, status) == page_ < pages_ /\ status = "ok"

\* "if page < pages: time.sleep(2)": reached after every call of
\* _scrape_single_page, which returns [] on a failure instead of raising
SleepAfter(page_, pages_, status) == page_ < pages_

NextPageStopOnFailure(page_, pages_, status) ==
    IF status = "ok" THEN page_ + 1 ELSE pages_ + 1

\* the step of "for page in range(1, pages + 1)": neither branch of the
\* loop body leaves the loop
NextPage(page_, pages_, status) == page_ + 1

\* the return of scrape_category
CategoryFrame(dicts, category) ==
    IF Len(dicts) > 0 THEN SetCategorie(DataFrame(dicts), category)
    ELSE EmptyTable

\* category_keys of perform_scraping
CategoryKeys(label) ==
    CASE label = "Voitures" -> "voitures"
      [] label = "Motos" -> "motos"
      [] label = "Location" -> "location"

\* categories of scrape_all_categories, category_urls of perform_scraping
CategoryUrls(category) ==
    CASE category = "voitures" -> "https://dakar-auto.com/senegal/voitures-4"
      [] category = "motos" -> "https://dakar-auto.com/senegal/motos-and-scooters-3"
      [] category = "location" -> "https://dakar-auto.com/senegal/location-de-voitures-19"

Labels == <<"Voitures", "Motos", "Location">>

AllCategories == <<"voitures", "motos", "location">>

\* pd.concat(all_dfs, ignore_index=True)
RECURSIVE Concat(_)
Concat(dfs) ==
    IF Len(dfs) = 0 THEN EmptyTable
    ELSE LET rest == Concat(Tail(dfs))
         IN [cols |-> dfs[1].cols \cup rest.cols, rows |-> dfs[1].rows \o rest.rows]

\* the tagging loop of merge_categories: every non-empty table gets its
\* key of data_dict as categorie (in place)
TagCategories(data_dict) ==
    [i \in 1..Len(data_dict) |->
        IF IsEmpty(data_dict[i].df) THEN data_dict[i]
        ELSE [key |-> data_dict[i].key,
              df |-> SetCategorie(data_dict[i].df, data_dict[i].key)]]

\* DataCleaner.merge_categories, on the tagged tables
MergeCategories(tagged) ==
    LET nonEmpty(e) == ~IsEmpty(e.df)
        kept == SelectSeq(tagged, nonEmpty)
    IN Concat([i \in 1..Len(kept) |-> kept[i].df])

\* the content of the site: the listing node of a page of a category
TitleOf(category) ==
    CASE category = "voitures" -> KiaRio2019
      [] category = "motos" -> Rio
      [] category = "location" -> Kia \o <<" ">> \o Y2008

PriceTextOf(page_) ==
    CASE page_ = 1 -> <<"1", " ", "F">>
      [] page_ = 2 -> <<"2", " ", "F">>
      [] page_ = 3 -> <<"3", " ", "F">>
      [] OTHER -> <<"4", " ", "F">>

SiteListing(category, page_) ==
    [h2 |-> TitleOf(category), h3 |-> PriceTextOf(page_), p |-> HlmDakar,
     li |-> <<Li4km, LiDiesel>>, raises |-> FALSE]

\* what a fetch of a page can give: an error of the fetch, an error of the
\* parse, a page without listing node, a page with one
Responses(category, page_) ==
    {[status |-> "fetch_error", listings |-> <<>>],
     [status |-> "parse_error", listings |-> <<>>],
     [status |-> "ok", listings |-> <<>>],
     [status |-> "ok", listings |-> <<SiteListing(category, page_)>>]}

NoTable == [present |-> FALSE, df |-> EmptyTable]

\* returned is the history of the category loop: the number of rows that
\* each finished scrape_category call had extracted.

\* the selections of the multiselect, in the order of its options
Selections ==
    {SelectSeq(Labels, LAMBDA l : l \in S) : S \in SUBSET {"Voitures", "Motos", "Location"}}

ScrapeIdle ==
    /\ caller = "none"
    /\ sel = <<>>
    /\ pages = 1
    /\ auto_clean = FALSE
    /\ cat_idx = 1
    /\ page = 1
    /\ all_data = <<>>
    /\ page_log = <<>>
    /\ results = <<>>
    /\ returned = <<>>
    /\ run_err = "none"
    /\ session_scraped = <<>>
    /\ session_cleaned = NoTable
    /\ scrape_pc = "idle"
    /\ cycle = 1
    /\ cleaned_in = 0

\* a call of scrape_all_categories(pages) or of perform_scraping(categories,
\* pages, save_raw, auto_clean) in a fresh session; sel holds, for each
\* category of the loop, the key its table is stored under and its
\* identifier
ScrapeInit ==
    /\ \/ /\ caller = "scrape_all_categories"
          /\ sel = [i \in 1..3 |-> [key |-> AllCategories[i], category |-> AllCategories[i]]]
          /\ auto_clean = FALSE
       \/ /\ caller = "perform_scraping"
          /\ \E chosen \in Selections :
                sel = [i \in 1..Len(chosen) |->
                          [key |-> chosen[i], category |-> CategoryKeys(chosen[i])]]
          /\ auto_clean \in BOOLEAN
    /\ pages \in 1..MaxPages
    /\ cat_idx = 1
    /\ page = 1
    /\ all_data = <<>>
    /\ page_log = <<>>
    /\ results = <<>>
    /\ returned = <<>>
    /\ run_err = "none"
    /\ session_scraped = <<>>
    /\ session_cleaned = NoTable
    /\ scrape_pc = "loop"
    /\ cycle = 1
    /\ cleaned_in = 0

Others == <<price_vars, title_vars, det_vars, clean_vars, node_vars, city_vars>>

\* the call scrape_category(url, category, pages) of the category loop
CallScrapeCategory ==
    /\ scrape_pc = "loop"
    /\ cat_idx <= Len(sel)
    /\ page' = 1
    /\ all_data' = <<>>
    /\ page_log' = <<>>
    /\ scrape_pc' = "pages"
    /\ UNCHANGED <<caller, sel, pages, auto_clean, cat_idx, results, returned,
                   run_err, session_scraped, session_cleaned, Others,
                   cycle, cleaned_in>>

\* one iteration of the page loop of scrape_category
ScrapePage ==
    /\ scrape_pc = "pages"
    /\ page <= pages
    /\ \E response \in Responses(sel[cat_idx].category, page) :
          LET category == sel[cat_idx].category
              page_url == PageUrl(CategoryUrls(category), page)
              page_data == ScrapeSinglePage(page_url, category, response)
          IN /\ all_data' = all_data \o page_data
             /\ page_log' = Append(page_log,
                                   [page |-> page, url |-> page_url,
                                    status |-> response.status,
                                    rows |-> Len(page_data),
                                    slept |-> SleepAfter(page, pages, response.status)])
             /\ page' = NextPage(page, pages, response.status)
    /\ UNCHANGED <<caller, sel, pages, auto_clean, cat_idx, results, returned,
                   run_err, session_scraped, session_cleaned, scrape_pc, Others,
                   cycle, cleaned_in>>

\* the return of scrape_category and the "if not df.empty" of its caller
ReturnCategory ==
    /\ scrape_pc = "pages"
    /\ page > pages
    /\ LET df == CategoryFrame(all_data, sel[cat_idx].category)
       IN results' = IF IsEmpty(df) THEN results
                     ELSE Append(results, [key |-> sel[cat_idx].key, df |-> df])
    /\ returned' = Append(returned, Len(all_data))
    /\ cat_idx' = cat_idx + 1
    /\ scrape_pc' = "loop"
    /\ UNCHANGED <<caller, sel, pages, auto_clean, page, all_data, page_log,
                   run_err, session_scraped, session_cleaned, Others,
                   cycle, cleaned_in>>

\* the return of scrape_all_categories
ReturnAllCategories ==
    /\ scrape_pc = "loop"
    /\ cat_idx > Len(sel)
    /\ caller = "scrape_all_categories"
    /\ scrape_pc' = "done"
    /\ UNCHANGED <<caller, sel, pages, auto_clean, cat_idx, page, all_data,
                   page_log, results, returned, run_err, session_scraped,
                   session_cleaned, Others,
                   cycle, cleaned_in>>

\* the end of perform_scraping: "if scraped_data:" and "if auto_clean:"
FinishPerformScraping ==
    /\ scrape_pc = "loop"
    /\ cat_idx > Len(sel)
    /\ caller = "perform_scraping"
    /\ IF Len(results) = 0
       THEN UNCHANGED <<results, run_err, session_scraped, session_cleaned,
                         cleaned_in>>
       ELSE IF ~auto_clean
            THEN /\ session_scraped' = results
                 /\ UNCHANGED <<results, run_err, session_cleaned, cleaned_in>>
            ELSE LET tagged == TagCategories(results)
                     cleaned == CleanDataframe(MergeCategories(tagged), "scraper")
                 IN /\ results' = tagged
                    /\ session_scraped' = tagged
                    /\ run_err' = cleaned.err
                    /\ session_cleaned' =
                          IF cleaned.err = "none"
                          THEN [present |-> TRUE, df |-> cleaned.df]
                          ELSE session_cleaned
                    /\ cleaned_in' = IF cleaned.err = "none" THEN cycle
                                      ELSE cleaned_in
    /\ scrape_pc' = "done"
    /\ UNCHANGED <<caller, sel, pages, auto_clean, cat_idx, page, all_data,
                   page_log, returned, Others, cycle>>

\* the next click on the scraping button in the same session: a new call
\* perform_scraping(categories, pages, save_raw, auto_clean) with the
\* slider at its default; st.session_state is kept
StartCycle ==
    /\ scrape_pc = "done"
    /\ caller = "perform_scraping"
    /\ cycle < MaxCycles
    /\ \E chosen \in Selections :
          sel' = [i \in 1..Len(chosen) |->
                     [key |-> chosen[i], category |-> CategoryKeys(chosen[i])]]
    /\ auto_clean' \in BOOLEAN
    /\ pages' = DefaultPages
    /\ cat_idx' = 1
    /\ page' = 1
    /\ all_data' = <<>>
    /\ page_log' = <<>>
    /\ results' = <<>>
    /\ returned' = <<>>
    /\ run_err' = "none"
    /\ scrape_pc' = "loop"
    /\ cycle' = cycle + 1
    /\ UNCHANGED <<caller, session_scraped, session_cleaned, cleaned_in, Others>>

SessionNext ==
    \/ CallScrapeCategory
    \/ ScrapePage
    \/ ReturnCategory
    \/ FinishPerformScraping
    \/ StartCycle

ScrapeNext ==
    \/ CallScrapeCategory
    \/ ScrapePage
    \/ ReturnCategory
    \/ ReturnAllCategories
    \/ FinishPerformScraping

----------------------------------------------------------------------------
(* _scrape_single_page on the listing nodes of one fetched page *)

MaxNodes == 3

\* listing nodes: two that extract (with and without price heading), one
\* without h2, one for which a step past the title raises
NodeFull ==
    [h2 |-> KiaRio2019, h3 |-> <<"1", " ", "F">>, p |-> HlmDakar,
     li |-> <<Li4km, LiAuto>>, raises |-> FALSE]
NodeBare ==
    [h2 |-> Rio, h3 |-> Absent, p |-> Absent, li |-> <<>>, raises |-> FALSE]
NodeNoH2 ==
    [h2 |-> Absent, h3 |-> <<"2", " ", "F">>, p |-> Pikine,
     li |-> <<LiDiesel>>, raises |-> FALSE]
NodeRaises ==
    [h2 |-> Kia, h3 |-> <<"3", " ", "F">>, p |-> Absent,
     li |-> <<Li9KM>>, raises |-> TRUE]

ListingNodes == {NodeFull, NodeBare, NodeNoH2, NodeRaises}

NodeUrl == PageUrl(CategoryUrls(node_category), 1)

NodeIdle ==
    /\ node_listings = <<>>
    /\ node_category = "voitures"
    /\ node_rows = <<>>
    /\ node_pc = "idle"

\* the listings that _find_listings gave for a page that was fetched and
\* parsed
NodeInit ==
    /\ node_listings \in SeqsUpTo(ListingNodes, MaxNodes)
    /\ node_category \in Categories
    /\ node_rows = <<>>
    /\ node_pc = "start"

\* the listing loop of _scrape_single_page and its return
DoScrapeSinglePage ==
    /\ node_pc = "start"
    /\ node_rows' = ScrapeSinglePage(NodeUrl, node_category,
                                     [status |-> "ok", listings |-> node_listings])
    /\ node_pc' = "done"
    /\ UNCHANGED <<node_listings, node_category, price_vars, title_vars,
                   det_vars, clean_vars, scrape_vars, city_vars>>

----------------------------------------------------------------------------
(* _extract_city on one address *)

MaxChunks == 4

\* an address is made of chunks: localities of the list in several cases,
\* a place that is not in the list, a comma, a space
CkDakar == <<"D", "a", "k", "a", "r">>
CkThies == <<"t", "h", "i", "è", "s">>
CkKolda == <<"K", "O", "L", "D", "A">>
CkPikine == <<"P", "i", "k", "i", "n", "e">>
CkComma == <<",">>
CkSpace == <<" ">>

AddressChunks == {CkDakar, CkThies, CkKolda, CkPikine, CkComma, CkSpace}

RECURSIVE Flatten(_)
Flatten(chunks) ==
    IF Len(chunks) = 0 THEN <<>> ELSE chunks[1] \o Flatten(Tail(chunks))

CityIdle ==
    /\ addr_chunks = <<>>
    /\ address = <<>>
    /\ ville = None
    /\ city_pc = "idle"

\* a call _extract_city(address) on a str or on a cell that is not a str
CityInit ==
    /\ addr_chunks \in SeqsUpTo(AddressChunks, MaxChunks)
    /\ address \in {Flatten(addr_chunks)} \cup (IF addr_chunks = <<>> THEN {None} ELSE {})
    /\ ville = None
    /\ city_pc = "start"

DoExtractCity ==
    /\ city_pc = "start"
    /\ ville' = ExtractCity(address)
    /\ city_pc' = "done"
    /\ UNCHANGED <<addr_chunks, address, price_vars, title_vars, det_vars,
                   clean_vars, scrape_vars, node_vars>>

----------------------------------------------------------------------------
(* Specifications *)

InitPrice == PriceInit /\ TitleIdle /\ DetIdle /\ CleanIdle /\ ScrapeIdle
    /\ NodeIdle /\ CityIdle

SpecPrice == InitPrice /\ [][PriceNext]_vars

InitTitle == TitleInit /\ PriceIdle /\ DetIdle /\ CleanIdle /\ ScrapeIdle
    /\ NodeIdle /\ CityIdle

SpecTitle == InitTitle /\ [][TitleNext]_vars

InitDetails == DetInit /\ PriceIdle /\ TitleIdle /\ CleanIdle /\ ScrapeIdle
    /\ NodeIdle /\ CityIdle

SpecDetails == InitDetails /\ [][DetNext]_vars

InitClean == CleanInit /\ PriceIdle /\ TitleIdle /\ DetIdle /\ ScrapeIdle
    /\ NodeIdle /\ CityIdle

SpecClean == InitClean /\ [][CleanNext]_vars

Init == ScrapeInit /\ PriceIdle /\ TitleIdle /\ DetIdle /\ CleanIdle
    /\ NodeIdle /\ CityIdle

Next == ScrapeNext

Spec == Init /\ [][Next]_vars

InitPage == NodeInit /\ PriceIdle /\ TitleIdle /\ DetIdle /\ CleanIdle /\ ScrapeIdle
    /\ CityIdle

\* the first click of a session, then the clicks that follow it
InitSession ==
    /\ ScrapeInit /\ caller = "perform_scraping" /\ pages = DefaultPages
    /\ PriceIdle /\ TitleIdle /\ DetIdle /\ CleanIdle /\ NodeIdle /\ CityIdle

SpecSession == InitSession /\ [][SessionNext]_vars

SpecPage == InitPage /\ [][DoScrapeSinglePage]_vars

InitCity == CityInit /\ PriceIdle /\ TitleIdle /\ DetIdle /\ CleanIdle /\ ScrapeIdle
    /\ NodeIdle

SpecCity == InitCity /\ [][DoExtractCity]_vars

----------------------------------------------------------------------------
(* Properties *)

Pow10(n) == IF n = 0 THEN 1 ELSE IF n = 1 THEN 10 ELSE IF n = 2 THEN 100
            ELSE IF n = 3 THEN 1000 ELSE IF n = 4 THEN 10000 ELSE 100000

DigitPositions(text) == {i \in 1..Len(text) : IsDigit(text[i])}

RECURSIVE SumOver(_, _)
SumOver(S, text) ==
    IF S = {} THEN 0
    ELSE LET i == CHOOSE k \in S : TRUE
         IN DigitVal(text[i])
              * Pow10(Cardinality({j \in DigitPositions(text) : j > i}))
            + SumOver(S \ {i}, text)

\* the integer that the digit characters of text spell, read in order
DigitsValue(text) == SumOver(DigitPositions(text), text)

\* C9: a price text without a digit parses to a missing prix (not 0), a
\* price text with digits parses to the integer its digits spell in order,
\* in the extractor's and in the normalizer's _extract_numeric_price alike.
C9_PriceParsed ==
    price_pc = "done" =>
        IF DigitPositions(price_text) = {}
        THEN prix_scraper = NaN /\ prix_cleaner = NaN
        ELSE /\ prix_scraper = DigitsValue(price_text)
             /\ prix_cleaner = DigitsValue(price_text)

C9_Witness ==
    /\ price_pc = "done"
    /\ Len(price_text) >= 2
    /\ DigitPositions(price_text) = {}
    /\ prix_scraper = NaN
    /\ prix_cleaner = NaN

IsYearToken(tok) == Len(tok) = 4 /\ YearAt(tok, 1)

IsBrandToken(tok) ==
    Len(tok) > 0 /\ \A i \in 1..Len(tok) : IsWordChar(tok[i]) /\ ~IsDigit(tok[i])

\* a title "<Brand> <Model words> <Year>"
IsBrandModelYear(toks) ==
    /\ Len(toks) >= 3
    /\ IsBrandToken(toks[1])
    /\ IsYearToken(toks[Len(toks)])

\* C8: for a title "<Brand> <Model words> <Year>", _extract_title_parts
\* sets modele to the model words joined by single spaces in their order
\* and annee to the trailing year token, also when a model word is
\* year-like.
C8_ModelWordsRejoined ==
    (title_pc \in {"extracted", "done"} /\ IsBrandModelYear(title_tokens)) =>
        /\ title_data.modele = Join(SubSeq(title_tokens, 2, Len(title_tokens) - 1))
        /\ title_data.annee = title_tokens[Len(title_tokens)]

\* the list items that contain "km" and a digit
KmItems(items) ==
    {i \in 1..Len(items) :
        Contains(Lower(items[i]), Km) /\ DigitPositions(items[i]) # {}}

MinOf(S) == CHOOSE i \in S : \A j \in S : i <= j
MaxOf(S) == CHOOSE i \in S : \A j \in S : j <= i

RowSet(df) == {df.rows[i] : i \in 1..Len(df.rows)}

CleanReturned == clean_pc \in {"cleaned", "recleaned"} /\ clean_err = "none"

\* C1 as claimed: _common_cleaning applied to its own result returns the
\* same row set.
C1_Idempotent ==
    clean_pc = "recleaned" => RowSet(df_twice) = RowSet(df_out)

\* C1 amended: _common_cleaning applied to its own result returns, in the
\* same order, exactly the rows of that result that lie in the inclusive
\* 5th-95th percentile band recomputed over that result's own prices: no
\* row is added or changed and none is lost to the duplicate or the
\* missing-price step, but the recomputed band can remove further rows.
C1_SecondPassOnlyTrims ==
    clean_pc = "recleaned" =>
        /\ df_twice.cols = df_out.cols
        /\ IF Len(df_out.rows) = 0 THEN df_twice.rows = <<>>
           ELSE LET q1 == Quantile20(PrixOf(df_out.rows), 1)
                    q3 == Quantile20(PrixOf(df_out.rows), 19)
                    keep == {i \in 1..Len(df_out.rows) :
                                /\ 20 * df_out.rows[i].prix >= q1
                                /\ 20 * df_out.rows[i].prix <= q3}
                IN /\ RowSet(df_twice) = {df_out.rows[i] : i \in keep}
                   /\ Len(df_twice.rows) = Cardinality(keep)
                   /\ \A i, j \in 1..Len(df_twice.rows) :
                        i < j => \E a, b \in keep :
                                    /\ a < b
                                    /\ df_out.rows[a] = df_twice.rows[i]
                                    /\ df_out.rows[b] = df_twice.rows[j]

C1_Witness ==
    /\ clean_pc = "recleaned"
    /\ Len(df_twice.rows) > 0
    /\ Len(df_twice.rows) < Len(df_out.rows)

\* C2: no two rows of the table clean_dataframe returns have the same
\* (titre_complet, prix) pair, prix being the coerced number.
C2_NoDuplicatePair ==
    CleanReturned =>
        \A i, j \in 1..Len(df_out.rows) :
            i < j => ~ /\ df_out.rows[i].titre_complet = df_out.rows[j].titre_complet
                       /\ df_out.rows[i].prix = df_out.rows[j].prix

C2_Witness ==
    /\ clean_pc = "cleaned"
    /\ clean_err = "none"
    /\ \E i, j \in 1..Len(df_in.rows) :
          /\ i < j
          /\ df_in.rows[i].titre_complet = df_in.rows[j].titre_complet
          /\ df_in.rows[i].prix = df_in.rows[j].prix
          /\ \E k \in 1..Len(df_out.rows) :
                /\ df_out.rows[k].titre_complet = df_in.rows[i].titre_complet
                /\ df_out.rows[k].prix = df_in.rows[i].prix

\* the title and the price of an input row as the normalizer reads them
InputTitle(r) ==
    IF source = "webscraper" /\ "titre_complet" \notin df_in.cols
    THEN r.marque ELSE r.titre_complet

InputPrix(r) ==
    IF source = "webscraper" /\ Has(df_in.cols, "prix_texte")
    THEN (IF DigitPositions(r.prix_texte) = {} THEN NaN ELSE DigitsValue(r.prix_texte))
    ELSE (IF r.prix = NonNumeric THEN NaN ELSE r.prix)

\* the distinct (title, price) pairs of the input rows that have a price
PricedPairs ==
    {<<InputTitle(r), InputPrix(r)>> : r \in RowSet(df_in)}
        \ {<<InputTitle(r), NaN>> : r \in RowSet(df_in)}

RECURSIVE PricesOf(_)
PricesOf(pairs) ==
    IF pairs = {} THEN <<>>
    ELSE LET p == CHOOSE q \in pairs : TRUE
         IN <<p[2]>> \o PricesOf(pairs \ {p})

\* C3: every row clean_dataframe returns has a prix p that is not missing
\* and lies in [P5, P95], the 5th and 95th percentiles of prix over the
\* rows left after duplicate removal and after the rows without prix are
\* dropped.
C3_WithinBand ==
    (CleanReturned /\ ~IsEmpty(df_in)) =>
        \A i \in 1..Len(df_out.rows) :
            /\ df_out.rows[i].prix # NaN
            /\ 20 * df_out.rows[i].prix >= Quantile20(PricesOf(PricedPairs), 1)
            /\ 20 * df_out.rows[i].prix <= Quantile20(PricesOf(PricedPairs), 19)

C3_Witness ==
    /\ clean_pc = "cleaned"
    /\ clean_err = "none"
    /\ Len(df_out.rows) > 0
    /\ \E i, j \in 1..Len(df_in.rows) : i < j /\ df_in.rows[i] = df_in.rows[j]
    /\ Cardinality(PricedPairs) > Len(df_out.rows)

Cell(r, col) ==
    CASE col = "adresse" -> r.adresse
      [] col = "boite_vitesse" -> r.boite_vitesse
      [] col = "carburant" -> r.carburant
      [] col = "ville" -> r.ville
      [] col = "modele" -> r.modele

\* C4 as claimed: in the table clean_dataframe returns, every row has a
\* value in each of the text fields adresse, boite_vitesse, carburant,
\* ville, modele, whatever the columns of the input table.
C4_NoTextFieldMissing ==
    CleanReturned =>
        \A i \in 1..Len(df_out.rows) :
            \A col \in TextCols :
                /\ col \in df_out.cols
                /\ Cell(df_out.rows[i], col) # None

\* C4 amended: in the table clean_dataframe returns, no row is missing a
\* value in a text field adresse, boite_vitesse, carburant, ville, modele
\* that is a column of that table: a missing value has become the
\* sentinel.
C4_TextFilled ==
    CleanReturned =>
        \A i \in 1..Len(df_out.rows) :
            \A col \in TextCols \cap df_out.cols :
                Cell(df_out.rows[i], col) # None

C4_Witness ==
    /\ clean_pc = "cleaned"
    /\ clean_err = "none"
    /\ source = "webscraper"
    /\ {"ville", "carburant"} \subseteq df_out.cols
    /\ \E i \in 1..Len(df_out.rows) :
          /\ df_in.rows[1].carburant = None
          /\ df_out.rows[i].carburant = Sentinel
          /\ df_out.rows[i].ville = Sentinel

\* C6: clean_dataframe returns a table and never raises, whatever the
\* columns of the input table.
C6_NeverRaises ==
    clean_pc \in {"cleaned", "recleaned"} => clean_err = "none"

\* C5: every row of the dataset that perform_scraping stores after the
\* merge and the cleaning has as categorie one of the identifiers voitures,
\* motos, location, the one of the category whose page it was scraped from.
C5_CategorieIsIdentifier ==
    (scrape_pc = "done" /\ caller = "perform_scraping" /\ session_cleaned.present) =>
        \A i \in 1..Len(session_cleaned.df.rows) :
            LET r == session_cleaned.df.rows[i]
            IN /\ r.categorie \in {"voitures", "motos", "location"}
               /\ CategoryUrls(r.categorie) = r.url_page[1]

FailedPages == {k \in 1..Len(page_log) : page_log[k].status # "ok"}

ResultKeys == {results[i].key : i \in 1..Len(results)}

\* C7: in scrape_category a page whose fetch or parse failed contributes no
\* row and the pages after it are still fetched, each page once and in
\* order; when every page failed the category's table is empty and is not
\* in the results; scrape_all_categories goes through its three categories
\* and returns the table of every category that has rows.
C7_PageFailureIsolated ==
    /\ \A k \in 1..Len(page_log) :
          /\ page_log[k].page = k
          /\ k \in FailedPages =>
                /\ page_log[k].rows = 0
                /\ \A i \in 1..Len(all_data) : all_data[i].url_page # page_log[k].url
    /\ (scrape_pc \in {"loop", "done"} /\ cat_idx > 1) =>
          /\ Len(page_log) = pages
          /\ FailedPages = 1..pages =>
                /\ all_data = <<>>
                /\ returned[cat_idx - 1] = 0
                /\ sel[cat_idx - 1].key \notin ResultKeys
    /\ (scrape_pc = "done" /\ caller = "scrape_all_categories") =>
          /\ Len(returned) = 3
          /\ \A c \in 1..3 :
                IF returned[c] = 0 THEN AllCategories[c] \notin ResultKeys
                ELSE \E i \in 1..Len(results) :
                        /\ results[i].key = AllCategories[c]
                        /\ Len(results[i].df.rows) = returned[c]
                        /\ \A j \in 1..returned[c] :
                              results[i].df.rows[j].categorie = AllCategories[c]

C7_Witness ==
    /\ scrape_pc = "done"
    /\ caller = "scrape_all_categories"
    /\ pages >= 2
    /\ returned[1] > 0
    /\ returned[2] = 0
    /\ FailedPages = 1..pages
    /\ page_log[1].status = "fetch_error"
    /\ page_log[2].status = "parse_error"
    /\ ResultKeys = {"voitures"}

\* C11: the data _extract_details fills carries a carburant field only for
\* the category voitures and a boite_vitesse field only for voitures and
\* location; for motos neither, whatever the list items say.
C11_CategoryGating ==
    det_pc = "done" =>
        /\ det_data.carburant # Absent => det_category = "voitures"
        /\ det_data.boite_vitesse # Absent => det_category \in {"voitures", "location"}

\* the category whose scrape_category call page_log and all_data belong to
LoggedCategory ==
    IF scrape_pc = "pages" THEN sel[cat_idx].category ELSE sel[cat_idx - 1].category

\* the URL the protocol gives page k of a category
ProtocolUrl(category, k) ==
    IF k = 1 THEN <<CategoryUrls(category)>>
    ELSE <<CategoryUrls(category), "?page=", k>>

CategoryReturned == scrape_pc \in {"loop", "done"} /\ cat_idx > 1

\* C12: scrape_category(url, category, N) fetches page 1 at the bare URL,
\* then page n at url?page=n for n = 2..N, each page once and in order,
\* whether or not a fetch failed, N fetches in all; every extracted and
\* every returned row carries as url_page the URL of the page it came from.
C12_PaginationProtocol ==
    /\ (scrape_pc = "pages" \/ CategoryReturned) =>
          /\ Len(page_log) <= pages
          /\ \A k \in 1..Len(page_log) :
                /\ page_log[k].page = k
                /\ page_log[k].url = ProtocolUrl(LoggedCategory, k)
          /\ \A i \in 1..Len(all_data) :
                \E k \in 1..Len(page_log) :
                    /\ page_log[k].status = "ok"
                    /\ all_data[i].prix_texte = PriceTextOf(k)
                    /\ all_data[i].url_page = page_log[k].url
    /\ CategoryReturned => Len(page_log) = pages
    /\ \A i \in 1..Len(results) :
          \A j \in 1..Len(results[i].df.rows) :
             \E s \in 1..Len(sel) : \E k \in 1..pages :
                /\ sel[s].key = results[i].key
                /\ results[i].df.rows[j].prix_texte = PriceTextOf(k)
                /\ results[i].df.rows[j].url_page = ProtocolUrl(sel[s].category, k)

C12_Witness ==
    /\ CategoryReturned
    /\ pages >= 2
    /\ page_log[1].status = "fetch_error"
    /\ page_log[2].rows = 1
    /\ \E i \in 1..Len(results) :
          /\ Len(results[i].df.rows) = 1
          /\ results[i].df.rows[1].url_page = ProtocolUrl(LoggedCategory, 2)

\* the fetches of the logged scrape_category call that a delay followed
SleptPages == {k \in 1..Len(page_log) : page_log[k].slept}

\* C13: in a scrape_category run over N pages a delay follows the fetch of
\* page k for every k < N, also when that page failed or gave no row, and
\* none follows the fetch of page N: N-1 delays in all.
C13_InterPageDelay ==
    /\ (scrape_pc = "pages" \/ CategoryReturned) =>
          \A k \in 1..Len(page_log) : page_log[k].slept <=> k < pages
    /\ CategoryReturned =>
          /\ Cardinality(SleptPages) = pages - 1
          /\ pages \notin SleptPages

C13_Witness ==
    /\ CategoryReturned
    /\ pages >= 2
    /\ page_log[1].status = "parse_error"
    /\ page_log[1].slept
    /\ page_log[pages].status = "ok"
    /\ page_log[pages].rows = 0
    /\ ~page_log[pages].slept

\* the nodes of the page that have a level-2 heading and on which no step
\* of the extraction raises
ExtractedNodes ==
    {i \in 1..Len(node_listings) :
        node_listings[i].h2 # Absent /\ ~node_listings[i].raises}

\* C14: within one page a listing node without level-2 heading, or whose
\* extraction raises, yields no row and the other nodes are still
\* extracted: the page's rows are the rows of the nodes that extract, one
\* each, in document order.
C14_NodeIsolation ==
    node_pc = "done" =>
        /\ Len(node_rows) = Cardinality(ExtractedNodes)
        /\ \A i \in ExtractedNodes :
              LET k == Cardinality({j \in ExtractedNodes : j <= i})
              IN /\ node_rows[k].titre_complet = node_listings[i].h2
                 /\ node_rows[k].prix_texte = node_listings[i].h3
                 /\ node_rows[k].url_page = NodeUrl

C14_Witness ==
    /\ node_pc = "done"
    /\ Len(node_listings) = 3
    /\ node_listings[1] = NodeRaises
    /\ node_listings[2] = NodeBare
    /\ node_listings[3] = NodeFull
    /\ Len(node_rows) = 2
    /\ node_rows[1].titre_complet = Rio
    /\ node_rows[2].titre_complet = KiaRio2019

\* the position in the fixed list of the locality a chunk spells, 0 for a
\* chunk that spells none
LocalityOf(chunk) ==
    CASE chunk = CkDakar -> 1
      [] chunk = CkThies -> 2
      [] chunk = CkKolda -> 10
      [] OTHER -> 0

LocalitiesIn(chunks) == {LocalityOf(chunks[i]) : i \in 1..Len(chunks)} \ {0}

\* the chunks after the last comma chunk, without the spaces around them
RECURSIVE TrimChunks(_)
TrimChunks(chunks) ==
    IF Len(chunks) > 0 /\ chunks[1] = CkSpace THEN TrimChunks(Tail(chunks))
    ELSE IF Len(chunks) > 0 /\ chunks[Len(chunks)] = CkSpace
         THEN TrimChunks(SubSeq(chunks, 1, Len(chunks) - 1))
         ELSE chunks

LastCommaChunk(chunks) == MaxOf({i \in 1..Len(chunks) : chunks[i] = CkComma})

\* C15: the ville of an address that contains a known locality, in any
\* case and anywhere, is the earliest locality of the fixed list that it
\* contains, as the list spells it; of an address without one that has a
\* comma, the trimmed text after the last comma; of any other address, and
\* of a cell that is not a str, missing.
C15_CityInferred ==
    city_pc = "done" =>
        IF address = None THEN ville = None
        ELSE IF LocalitiesIn(addr_chunks) # {}
             THEN ville = Cities[MinOf(LocalitiesIn(addr_chunks))]
             ELSE IF \E i \in 1..Len(addr_chunks) : addr_chunks[i] = CkComma
                  THEN ville = Flatten(TrimChunks(
                                  SubSeq(addr_chunks, LastCommaChunk(addr_chunks) + 1,
                                         Len(addr_chunks))))
                  ELSE ville = None

\* a later-listed locality before the comma, an earlier-listed one after
\* it in another case, then a place that is not in the list
C15_Witness ==
    /\ city_pc = "done"
    /\ Len(addr_chunks) = 4
    /\ addr_chunks[1] = CkKolda
    /\ addr_chunks[2] = CkComma
    /\ addr_chunks[3] = CkThies
    /\ addr_chunks[4] = CkPikine
    /\ ville = Cities[2]

\* C16: when the input table of clean_dataframe has a row with a prix that
\* is not missing, the table it returns has at least one row.
C16_NonEmptySurvival ==
    (CleanReturned /\ PricedPairs # {}) => Len(df_out.rows) >= 1

\* C17: split_title of _split_combined_title gives, for every title that
\* has a token, the same marque, the same annee and the same modele as
\* _extract_title_parts, an empty modele being different from a missing
\* one.
C17_SplitRulesAgree ==
    (title_pc = "done" /\ Len(title_tokens) >= 1) =>
        /\ split_data.marque = title_data.marque
        /\ split_data.annee = title_data.annee
        /\ split_data.modele = title_data.modele

\* C18: once a scrape cycle has completed, the stored cleaned_data is
\* absent or is the cleaning of the merged tables scraped in that same
\* cycle; it is never the cleaned table of an earlier cycle.
C18_CleanedFromThisCycle ==
    (scrape_pc = "done" /\ caller = "perform_scraping") =>
        \/ ~session_cleaned.present
        \/ /\ cleaned_in = cycle
           /\ session_cleaned.df = CleanDataframe(MergeCategories(results), "scraper").df

\* the number a supplied year cell spells, missing when it spells none
SuppliedYear(r) ==
    IF r.annee # None /\ Len(r.annee) > 0 /\ DigitPositions(r.annee) = 1..Len(r.annee)
    THEN DigitsValue(r.annee) ELSE NaN

\* C19: for an external table with a year column and a brand column but no
\* titre_complet column, the annee of every row clean_dataframe returns is
\* the number of the year cell supplied for that row, not a year parsed
\* out of the brand column.
C19_SuppliedYearKept ==
    (/\ CleanReturned
     /\ source = "webscraper"
     /\ {"Annee", "Marque"} \subseteq df_in.cols
     /\ "titre_complet" \notin df_in.cols) =>
        \A k \in 1..Len(df_out.rows) :
            \E i \in 1..Len(df_in.rows) :
                /\ df_out.rows[k].titre_complet = InputTitle(df_in.rows[i])
                /\ df_out.rows[k].prix = InputPrix(df_in.rows[i])
                /\ df_out.rows[k].annee = SuppliedYear(df_in.rows[i])

====
